---- MODULE Spec2Model ----
(***************************************************************************)
(* Model of app.py: the tournament record store (Player, RoundInfo, Game,  *)
(* GameResult), the admin handlers that mutate it, the session flag, and   *)
(* the standings request (index).                                          *)
(*                                                                         *)
(* Conventions: None is written 0 for ids and positions (SQLite ids start  *)
(* at 1).  A banned card is 0 (None) or 1 (some non-empty text).  The rows *)
(* of GameResult are kept per game id, in insertion (row id) order.        *)
(***************************************************************************)
EXTENDS Integers, Sequences, FiniteSets, TLC

VARIABLES players, roundinfo, games, results, is_admin, resp

vars == <<players, roundinfo, games, results, is_admin, resp>>

(* ---------------------------------------------------------------- bounds *)
\* Round numbers the requests name, and the cap on round_add's counter.
MaxRound == 2
\* Cap on the Game id counter (ids are max(id)+1, so they grow on delete/re-create).
MaxGameId == 4

Rounds == 1..MaxRound
GameIds == 1..MaxGameId

(* ------------------------------------------------------------- utilities *)
\* Max2 that returns its first argument.
Max2_First(a, b) == a

Max2(a, b) == IF a >= b THEN a ELSE b

SetMax(S) == IF S = {} THEN 0 ELSE CHOOSE x \in S : \A y \in S : y <= x

Range(s) == {s[i] : i \in 1..Len(s)}

\* Python's stable sort on integer keys: s is a sequence of records with an
\* integer field k; x goes after every element whose key is not greater.
RECURSIVE InsertAsc(_, _)
InsertAsc(x, s) ==
    IF s = <<>> THEN <<x>>
    ELSE IF x.k < Head(s).k THEN <<x>> \o s
    ELSE <<Head(s)>> \o InsertAsc(x, Tail(s))

RECURSIVE SortAsc(_)
SortAsc(s) ==
    IF s = <<>> THEN <<>>
    ELSE LET n == Len(s)
         IN InsertAsc(s[n], SortAsc(SubSeq(s, 1, n - 1)))

\* sorted(list_of_ints, reverse=True)
RECURSIVE InsertDesc(_, _)
InsertDesc(x, s) ==
    IF s = <<>> THEN <<x>>
    ELSE IF x > Head(s) THEN <<x>> \o s
    ELSE <<Head(s)>> \o InsertDesc(x, Tail(s))

RECURSIVE SortDesc(_)
SortDesc(s) ==
    IF s = <<>> THEN <<>>
    ELSE LET n == Len(s)
         IN InsertDesc(s[n], SortDesc(SubSeq(s, 1, n - 1)))

\* A set of integers as the ascending sequence (sorted(set)).
RECURSIVE SortedSeq(_)
SortedSeq(S) ==
    IF S = {} THEN <<>>
    ELSE LET m == CHOOSE x \in S : \A y \in S : x <= y
         IN <<m>> \o SortedSeq(S \ {m})

(* ----------------------------------------------------------------- names *)
\* Every name the model uses, in code point order (SQLite BINARY collation
\* and Python's str comparison agree on it).
NameOrder == <<"Borux", "Gordor", "Gueta", "Mauro", "Negro", "Omar",
               "Richard", "Teran", "Xephi", "Zed", "borux">>

NameKey(name) == CHOOSE i \in 1..Len(NameOrder) : NameOrder[i] = name

\* str.lower() / SQL lower() on the names of the model.
Lower(name) ==
    CASE name = "Borux"   -> "borux"
      [] name = "Gordor"  -> "gordor"
      [] name = "Gueta"   -> "gueta"
      [] name = "Mauro"   -> "mauro"
      [] name = "Negro"   -> "negro"
      [] name = "Omar"    -> "omar"
      [] name = "Richard" -> "richard"
      [] name = "Teran"   -> "teran"
      [] name = "Xephi"   -> "xephi"
      [] name = "Zed"     -> "zed"
      [] OTHER            -> name

(* ------------------------------------------------------------ the models *)
\* Player rows after seed_players(): ids 1..9 in the order of the list.
seed_players ==
    LET names == <<"Borux", "Negro", "Gueta", "Teran", "Mauro", "Gordor",
                   "Xephi", "Omar", "Richard">>
    IN [i \in 1..Len(names) |-> [name |-> names[i], active |-> TRUE]]

PlayerIds == DOMAIN players

ActiveIds == {p \in PlayerIds : players[p].active}

GameOf(round_no, table_no) ==
    {g \in DOMAIN games : games[g].round_number = round_no
                          /\ games[g].table_no = table_no}

\* Query.first(): the row with the least id among the matches, 0 when none.
FirstGame(round_no, table_no) ==
    LET m == GameOf(round_no, table_no)
    IN IF m = {} THEN 0 ELSE CHOOSE g \in m : \A h \in m : g <= h

GamesOfRound(round_no) == {g \in DOMAIN games : games[g].round_number = round_no}

\* participant_ids of a game: the player of each of its result rows.
Participants(g) == {results[g][i].player_id : i \in 1..Len(results[g])}

(* --------------------------------------------------------------- scoring *)
\* points_for_position that pays the podium under sweep as well.
points_for_position_NoSweep(position, sweep) ==
    IF position = 0 THEN 0
    ELSE IF position = 1 THEN 3
    ELSE IF position = 2 THEN 2
    ELSE IF position = 3 THEN 1
    ELSE 0

\* position is 0 for None; the integer 0 scores 0 as None does.
points_for_position(position, sweep) ==
    IF position = 0 THEN 0
    ELSE IF sweep THEN (IF position = 1 THEN 3 ELSE 0)
    ELSE IF position = 1 THEN 3
    ELSE IF position = 2 THEN 2
    ELSE IF position = 3 THEN 1
    ELSE 0

(* ------------------------------------------------------------- responses *)
NoPage == [table |-> <<>>, participation |-> <<>>, total_rounds |-> 0]

\* redirect(...) after flash(message, category)
Redirect(category) == [status |-> 302, flash |-> category, page |-> NoPage]
\* get_or_404 on a missing row
NotFound == [status |-> 404, flash |-> "", page |-> NoPage]
\* an exception that escapes the handler
ServerError == [status |-> 500, flash |-> "", page |-> NoPage]
\* render_template("index.html", ...)
Rendered(page) == [status |-> 200, flash |-> "", page |-> page]
\* before the first request
NoResponse == [status |-> 0, flash |-> "", page |-> NoPage]

(* ------------------------------------------------------------- standings *)
\* index() reads the store and nothing else: its steps are operators of the
\* store S = [players, roundinfo, games, results] it is given.
Store == [players |-> players, roundinfo |-> roundinfo, games |-> games,
          results |-> results]

\* Player.query.filter_by(active=True).order_by(Player.name.asc()), as ids.
ActivePlayersOf(S) ==
    LET ids == SortedSeq({p \in DOMAIN S.players : S.players[p].active})
        keyed == [i \in 1..Len(ids) |->
                    [k |-> NameKey(S.players[ids[i]].name), id |-> ids[i]]]
        sorted == SortAsc(keyed)
    IN [i \in 1..Len(sorted) |-> sorted[i].id]

ActiveIdsOf(S) == {p \in DOMAIN S.players : S.players[p].active}

\* Game.query.order_by(Game.round_number.asc(), Game.table_no.asc()), as ids
\* (table_no is 1 or 2, so round_number * 3 + table_no orders the pairs; rows
\* with equal keys in id order).
GamesOrdered(S) ==
    LET ids == SortedSeq(DOMAIN S.games)
        keyed == [i \in 1..Len(ids) |->
                    [k |-> S.games[ids[i]].round_number * 3 + S.games[ids[i]].table_no,
                     id |-> ids[i]]]
        sorted == SortAsc(keyed)
    IN [i \in 1..Len(sorted) |-> sorted[i].id]

\* totals, before any game is read
ZeroTotals(S) ==
    [p \in ActiveIdsOf(S) |-> [points |-> 0, wins |-> 0, seconds |-> 0,
                               thirds |-> 0, saves |-> 0]]

\* rests_by_player[p] after the loop over RoundInfo
rests_by_player(S, p) ==
    Cardinality({n \in DOMAIN S.roundinfo : S.roundinfo[n] # 0 /\ S.roundinfo[n] = p})

\* has_winner without the sweep flag.
has_winner_NoSweep(S, g) ==
    \E i \in 1..Len(S.results[g]) : S.results[g][i].position = 1

\* has_winner of a game: a row with position 1, or the sweep flag
has_winner(S, g) ==
    (\E i \in 1..Len(S.results[g]) : S.results[g][i].position = 1) \/ S.games[g].sweep

\* totals[r.player_id] of a player with no totals entry raises KeyError
IndexKeyError(S) ==
    \E g \in DOMAIN S.games :
        \E i \in 1..Len(S.results[g]) :
            S.results[g][i].player_id \notin ActiveIdsOf(S)

\* RowStep that counts a third place as a second place.
RowStep_ThirdAsSecond(acc, r, game, played) ==
    LET pid == r.player_id
        pts == points_for_position(r.position, game.sweep)
    IN [totals |->
          [acc.totals EXCEPT
             ![pid].points = @ + pts,
             ![pid].wins = IF r.position = 1 THEN @ + 1 ELSE @,
             ![pid].seconds = IF r.position \in {2, 3} THEN @ + 1 ELSE @],
        played_rounds |->
          IF played
          THEN [acc.played_rounds EXCEPT ![pid] = @ \cup {game.round_number}]
          ELSE acc.played_rounds]

\* One pass of the loop "for r in g.results" on the accumulator
\* acc = [totals, played_rounds]; game is the Game row, played its has_winner.
RowStep(acc, r, game, played) ==
    LET pid == r.player_id
        pts == points_for_position(r.position, game.sweep)
    IN [totals |->
          [acc.totals EXCEPT
             ![pid].points = @ + pts,
             ![pid].wins = IF r.position = 1 THEN @ + 1 ELSE @,
             ![pid].seconds = IF r.position = 2 THEN @ + 1 ELSE @,
             ![pid].thirds = IF r.position = 3 THEN @ + 1 ELSE @],
        played_rounds |->
          IF played
          THEN [acc.played_rounds EXCEPT ![pid] = @ \cup {game.round_number}]
          ELSE acc.played_rounds]

\* The loop "for r in g.results", rows 1..n done
RECURSIVE FoldRows(_, _, _, _, _)
FoldRows(acc, rows, n, game, played) ==
    IF n = 0 THEN acc
    ELSE RowStep(FoldRows(acc, rows, n - 1, game, played), rows[n], game, played)

\* AddSave that counts the save and forgets its point.
AddSave_NoPoint(acc, game) ==
    LET sp == game.save_player_id
    IN IF sp # 0 /\ sp \in DOMAIN acc.totals
       THEN [acc EXCEPT !.totals[sp].saves = @ + 1]
       ELSE acc

\* The save bonus of one game: +1 point and +1 save when the save player
\* has a totals entry.
AddSave(acc, game) ==
    LET sp == game.save_player_id
    IN IF sp # 0 /\ sp \in DOMAIN acc.totals
       THEN [acc EXCEPT !.totals[sp].points = @ + 1, !.totals[sp].saves = @ + 1]
       ELSE acc

\* The loop "for g in games", games gs[1..n] done
RECURSIVE FoldGames(_, _, _)
FoldGames(S, gs, n) ==
    IF n = 0
    THEN [totals |-> ZeroTotals(S),
          played_rounds |-> [p \in ActiveIdsOf(S) |-> {}]]
    ELSE LET g == gs[n]
         IN FoldRows(AddSave(FoldGames(S, gs, n - 1), S.games[g]),
                     S.results[g], Len(S.results[g]), S.games[g], has_winner(S, g))

\* totals and played_rounds after the loop over the games
Folded(S) == FoldGames(S, GamesOrdered(S), Len(GamesOrdered(S)))

\* all_rounds without the loop over RoundInfo.
all_rounds_GamesOnly(S) == {S.games[g].round_number : g \in DOMAIN S.games}

all_rounds(S) ==
    (DOMAIN S.roundinfo) \cup {S.games[g].round_number : g \in DOMAIN S.games}

total_rounds(S) == Cardinality(all_rounds(S))

\* per_player with the sign of the remaining games inverted in ub.
per_player_UbBelow(S) ==
    LET f == Folded(S)
        total == total_rounds(S)
    IN [p \in ActiveIdsOf(S) |->
          LET played == Cardinality(f.played_rounds[p])
              rests == rests_by_player(S, p)
              planned_to_play == Max2(total - rests, 0)
              remaining == Max2(planned_to_play - played, 0)
              lb == f.totals[p].points
          IN [name |-> S.players[p].name,
              points |-> f.totals[p].points,
              wins |-> f.totals[p].wins,
              seconds |-> f.totals[p].seconds,
              thirds |-> f.totals[p].thirds,
              saves |-> f.totals[p].saves,
              played |-> played,
              rests |-> rests,
              planned_to_play |-> planned_to_play,
              remaining |-> remaining,
              lb |-> lb,
              ub |-> lb - 4 * remaining]]

\* per_player without the status, for the active players
per_player(S) ==
    LET f == Folded(S)
        total == total_rounds(S)
    IN [p \in ActiveIdsOf(S) |->
          LET played == Cardinality(f.played_rounds[p])
              rests == rests_by_player(S, p)
              planned_to_play == Max2(total - rests, 0)
              remaining == Max2(planned_to_play - played, 0)
              lb == f.totals[p].points
          IN [name |-> S.players[p].name,
              points |-> f.totals[p].points,
              wins |-> f.totals[p].wins,
              seconds |-> f.totals[p].seconds,
              thirds |-> f.totals[p].thirds,
              saves |-> f.totals[p].saves,
              played |-> played,
              rests |-> rests,
              planned_to_play |-> planned_to_play,
              remaining |-> remaining,
              lb |-> lb,
              ub |-> lb + 4 * remaining]]

\* rival_LBs[3] / rival_UBs[3] of a list shorter than 4 raises IndexError
IndexIndexError(ids) == Len(ids) >= 1 /\ Len(ids) - 1 < 4

\* rival_LBs[3]: the 4th element (index 3 from 0) of the lb of the players
\* of ids other than pid, sorted in descending order.
fourth_best_rival_LB(pp, ids, pid) ==
    LET rivals == SelectSeq(ids, LAMBDA q : q # pid)
        rival_LBs == SortDesc([i \in 1..Len(rivals) |-> pp[rivals[i]].lb])
    IN rival_LBs[4]

\* rival_UBs[3], likewise on ub.
fourth_best_rival_UB(pp, ids, pid) ==
    LET rivals == SelectSeq(ids, LAMBDA q : q # pid)
        rival_UBs == SortDesc([i \in 1..Len(rivals) |-> pp[rivals[i]].ub])
    IN rival_UBs[4]

\* Status with the strict comparisons made non-strict.
Status_NotStrict(pp, ids, pid) ==
    IF pp[pid].lb >= fourth_best_rival_UB(pp, ids, pid) THEN "CLASIFICADO"
    ELSE IF pp[pid].ub <= fourth_best_rival_LB(pp, ids, pid) THEN "ELIMINADO"
    ELSE ""

\* The verdict of pid over the dictionary pp (pid -> [lb, ub, ...]) whose
\* keys are, in order, ids.  "" is None.
Status(pp, ids, pid) ==
    IF pp[pid].lb > fourth_best_rival_UB(pp, ids, pid) THEN "CLASIFICADO"
    ELSE IF pp[pid].ub < fourth_best_rival_LB(pp, ids, pid) THEN "ELIMINADO"
    ELSE ""

\* (points, wins, seconds, thirds) of a, greater than that of b
KeyGreater(a, b) ==
    \/ a.points > b.points
    \/ a.points = b.points /\ a.wins > b.wins
    \/ a.points = b.points /\ a.wins = b.wins /\ a.seconds > b.seconds
    \/ a.points = b.points /\ a.wins = b.wins /\ a.seconds = b.seconds
       /\ a.thirds > b.thirds

SameKey(a, b) ==
    a.points = b.points /\ a.wins = b.wins /\ a.seconds = b.seconds
    /\ a.thirds = b.thirds

\* table.sort(key=(points, wins, seconds, thirds), reverse=True): stable
RECURSIVE InsertMedal(_, _)
InsertMedal(x, s) ==
    IF s = <<>> THEN <<x>>
    ELSE IF KeyGreater(x, Head(s)) THEN <<x>> \o s
    ELSE <<Head(s)>> \o InsertMedal(x, Tail(s))

RECURSIVE SortMedal(_)
SortMedal(s) ==
    IF s = <<>> THEN <<>>
    ELSE LET n == Len(s)
         IN InsertMedal(s[n], SortMedal(SubSeq(s, 1, n - 1)))

\* AssignPos that numbers the groups of equal keys 1, 2, 3, ...
RECURSIVE AssignPos_Dense(_, _)
AssignPos_Dense(table, n) ==
    IF n = 0 THEN <<>>
    ELSE LET done == AssignPos_Dense(table, n - 1)
             t == table[n]
             pos == IF n = 1 THEN 1
                    ELSE IF ~SameKey(t, table[n - 1]) THEN done[n - 1].pos + 1
                    ELSE done[n - 1].pos
         IN Append(done, [id |-> t.id, name |-> t.name, points |-> t.points,
                          wins |-> t.wins, seconds |-> t.seconds,
                          thirds |-> t.thirds, saves |-> t.saves,
                          status |-> t.status, pos |-> pos])

\* The loop that numbers the rows, rows 1..n done: a row takes its index
\* when its key differs from the key of the row before, else that row's pos.
RECURSIVE AssignPos(_, _)
AssignPos(table, n) ==
    IF n = 0 THEN <<>>
    ELSE LET done == AssignPos(table, n - 1)
             t == table[n]
             pos == IF n = 1 \/ ~SameKey(t, table[n - 1]) THEN n ELSE done[n - 1].pos
         IN Append(done, [id |-> t.id, name |-> t.name, points |-> t.points,
                          wins |-> t.wins, seconds |-> t.seconds,
                          thirds |-> t.thirds, saves |-> t.saves,
                          status |-> t.status, pos |-> pos])

\* The rows of the standings table, before the sorts, with the verdicts.
TableRows(pp, ids) ==
    [i \in 1..Len(ids) |->
       LET r == pp[ids[i]]
       IN [id |-> ids[i], name |-> r.name, points |-> r.points,
           wins |-> r.wins, seconds |-> r.seconds, thirds |-> r.thirds,
           saves |-> r.saves, status |-> Status(pp, ids, ids[i]),
           k |-> NameKey(r.name)]]

\* What index() renders, when no exception is raised.
IndexPage(S) ==
    LET ids == ActivePlayersOf(S)
        pp == per_player(S)
        sorted_rows == SortMedal(SortAsc(TableRows(pp, ids)))
        table == AssignPos(sorted_rows, Len(sorted_rows))
        part == [i \in 1..Len(ids) |->
                   LET r == pp[ids[i]]
                   IN [name |-> r.name, played |-> r.played,
                       remaining |-> r.remaining, rests |-> r.rests,
                       planned_to_play |-> r.planned_to_play,
                       k |-> NameKey(r.name)]]
        sorted == SortAsc(part)
        participation == [i \in 1..Len(sorted) |->
                            [name |-> sorted[i].name, played |-> sorted[i].played,
                             remaining |-> sorted[i].remaining,
                             rests |-> sorted[i].rests,
                             planned_to_play |-> sorted[i].planned_to_play]]
    IN [table |-> table, participation |-> participation,
        total_rounds |-> total_rounds(S)]

\* The response of index() on the store S.
IndexResponse(S) ==
    IF IndexKeyError(S) THEN ServerError
    ELSE IF IndexIndexError(ActivePlayersOf(S)) THEN ServerError
    ELSE Rendered(IndexPage(S))

\* index that clears the sweep flag of the tables without a winner before
\* it answers.
index_Normalises ==
    /\ resp' = IndexResponse(Store)
    /\ games' = [g \in DOMAIN games |->
                   IF \E i \in 1..Len(results[g]) : results[g][i].position = 1
                   THEN games[g] ELSE [games[g] EXCEPT !.sweep = FALSE]]
    /\ UNCHANGED <<players, roundinfo, results, is_admin>>

\* GET /
index ==
    /\ resp' = IndexResponse(Store)
    /\ UNCHANGED <<players, roundinfo, games, results, is_admin>>

(* ------------------------------------------------------ session handlers *)
ADMIN_USERNAME == "admin"
ADMIN_PASSWORD == "admin123"

\* POST /login
login(u, p) ==
    /\ IF u = ADMIN_USERNAME /\ p = ADMIN_PASSWORD
       THEN is_admin' = TRUE /\ resp' = Redirect("success")
       ELSE is_admin' = is_admin /\ resp' = Redirect("danger")
    /\ UNCHANGED <<players, roundinfo, games, results>>

\* GET /logout
logout ==
    /\ is_admin' = FALSE
    /\ resp' = Redirect("info")
    /\ UNCHANGED <<players, roundinfo, games, results>>

\* The branch every admin handler starts with.
Unauthorized ==
    /\ ~is_admin
    /\ resp' = Redirect("danger")
    /\ UNCHANGED <<players, roundinfo, games, results, is_admin>>

(* ------------------------------------------------------- player handlers *)
\* POST /admin/players/add; name is the form field after strip()
player_add(name) ==
    \/ Unauthorized
    \/ /\ is_admin
       /\ IF name = ""
          THEN resp' = Redirect("warning") /\ players' = players
          ELSE IF \E q \in PlayerIds : Lower(players[q].name) = Lower(name)
          THEN resp' = Redirect("warning") /\ players' = players
          ELSE /\ players' = players @@
                    ((SetMax(PlayerIds) + 1) :> [name |-> name, active |-> TRUE])
               /\ resp' = Redirect("success")
       /\ UNCHANGED <<roundinfo, games, results, is_admin>>

\* POST /admin/players/<pid>/toggle
player_toggle(pid) ==
    \/ Unauthorized
    \/ /\ is_admin
       /\ IF pid \notin PlayerIds
          THEN resp' = NotFound /\ players' = players
          ELSE /\ players' = [players EXCEPT ![pid].active = ~@]
               /\ resp' = Redirect("info")
       /\ UNCHANGED <<roundinfo, games, results, is_admin>>

(* -------------------------------------------------------- round handlers *)
\* POST /rounds/<round_no>/bye; bye_pid is 0 for "none" or a missing field
round_set_bye(round_no, bye_pid) ==
    \/ Unauthorized
    \/ /\ is_admin
       /\ roundinfo' = IF round_no \in DOMAIN roundinfo
                       THEN [roundinfo EXCEPT ![round_no] = bye_pid]
                       ELSE roundinfo @@ (round_no :> bye_pid)
       /\ resp' = Redirect("success")
       /\ UNCHANGED <<players, games, results, is_admin>>

\* POST /rounds/add
round_add ==
    \/ Unauthorized
    \/ /\ is_admin
       /\ LET max_ri == SetMax(DOMAIN roundinfo)
              max_g == SetMax({games[g].round_number : g \in DOMAIN games})
              next_no == Max2(max_ri, max_g) + 1
          IN /\ next_no <= MaxRound
             /\ roundinfo' = roundinfo @@ (next_no :> 0)
       /\ resp' = Redirect("success")
       /\ UNCHANGED <<players, games, results, is_admin>>

\* DeleteGamesResults without the cascade: the rows stay.
DeleteGamesResults_Keep(gs) == results

\* db.session.delete(g) for every g of gs: the rows of a deleted game go
\* with it (cascade="all, delete-orphan").
DeleteGamesResults(gs) == [g \in DOMAIN results |-> IF g \in gs THEN <<>> ELSE results[g]]

DeleteGames(gs) == [g \in (DOMAIN games) \ gs |-> games[g]]

\* round_delete without the is_admin check.
round_delete_NoGate(round_no) ==
    /\ games' = DeleteGames(GamesOfRound(round_no))
    /\ results' = DeleteGamesResults(GamesOfRound(round_no))
    /\ roundinfo' = [n \in (DOMAIN roundinfo) \ {round_no} |-> roundinfo[n]]
    /\ resp' = Redirect("warning")
    /\ UNCHANGED <<players, is_admin>>

\* POST /rounds/<round_no>/delete
round_delete(round_no) ==
    \/ Unauthorized
    \/ /\ is_admin
       /\ games' = DeleteGames(GamesOfRound(round_no))
       /\ results' = DeleteGamesResults(GamesOfRound(round_no))
       /\ roundinfo' = [n \in (DOMAIN roundinfo) \ {round_no} |-> roundinfo[n]]
       /\ resp' = Redirect("warning")
       /\ UNCHANGED <<players, is_admin>>

\* ClearedGame that leaves the save player in place.
ClearedGame_KeepsSave(g) == [games[g] EXCEPT !.banned_card = 0, !.sweep = FALSE]

\* The reset of one game shared by game_reset and round_clear.
ClearedGame(g) == [games[g] EXCEPT !.banned_card = 0, !.sweep = FALSE,
                                   !.save_player_id = 0]

ClearedRows(rows) == [i \in 1..Len(rows) |-> [rows[i] EXCEPT !.position = 0]]

\* POST /rounds/<round_no>/clear
round_clear(round_no) ==
    \/ Unauthorized
    \/ /\ is_admin
       /\ games' = [g \in DOMAIN games |->
                      IF g \in GamesOfRound(round_no) THEN ClearedGame(g) ELSE games[g]]
       /\ results' = [g \in DOMAIN results |->
                        IF g \in GamesOfRound(round_no)
                        THEN ClearedRows(results[g]) ELSE results[g]]
       /\ resp' = Redirect("success")
       /\ UNCHANGED <<players, roundinfo, is_admin>>

\* POST /admin/reset_tournament
reset_tournament ==
    \/ Unauthorized
    \/ /\ is_admin
       /\ games' = DeleteGames(DOMAIN games)
       /\ results' = DeleteGamesResults(DOMAIN games)
       /\ roundinfo' = [n \in {} |-> 0]
       /\ resp' = Redirect("warning")
       /\ UNCHANGED <<players, is_admin>>

(* --------------------------------------------------------- game handlers *)
\* The validations of game_edit's POST on the parsed form f =
\* [banned_card, sweep, save_player_id, winner_id, second_id, third_id]:
\* TRUE when the request is rejected (flash "warning", nothing written).
GameEditRejects(participant_ids, f) ==
    LET chosen == SelectSeq(<<f.winner_id, f.second_id, f.third_id>>,
                            LAMBDA pid : pid # 0)
    IN IF f.winner_id = 0 \/ f.winner_id \notin participant_ids THEN TRUE
       ELSE IF ~f.sweep /\ Cardinality(Range(chosen)) # Len(chosen) THEN TRUE
       ELSE IF ~f.sweep /\ \E pid \in {f.second_id, f.third_id} :
                              pid # 0 /\ pid \notin participant_ids THEN TRUE
       ELSE IF f.save_player_id # 0 /\ f.save_player_id \notin participant_ids
       THEN TRUE
       ELSE FALSE

\* AssignPositions without "Reinicia posiciones": a row that gets no new
\* position keeps the one it had.
AssignPositions_KeepOld(rows, f) ==
    LET Pos(r) ==
            IF r.player_id = f.winner_id THEN 1
            ELSE IF ~f.sweep /\ f.third_id # 0 /\ r.player_id = f.third_id THEN 3
            ELSE IF ~f.sweep /\ f.second_id # 0 /\ r.player_id = f.second_id THEN 2
            ELSE r.position
    IN [i \in 1..Len(rows) |-> [rows[i] EXCEPT !.position = Pos(rows[i])]]

\* "Reinicia posiciones" and "Asigna posiciones": the position each row ends
\* with (second_id and third_id are dropped under sweep).
AssignPositions(rows, f) ==
    LET second_id == IF f.sweep THEN 0 ELSE f.second_id
        third_id == IF f.sweep THEN 0 ELSE f.third_id
        Pos(pid) ==
            LET p1 == IF pid = f.winner_id THEN 1 ELSE 0
                p2 == IF ~f.sweep /\ second_id # 0 /\ pid = second_id THEN 2 ELSE p1
                p3 == IF ~f.sweep /\ third_id # 0 /\ pid = third_id THEN 3 ELSE p2
            IN p3
    IN [i \in 1..Len(rows) |-> [rows[i] EXCEPT !.position = Pos(rows[i].player_id)]]

\* game_edit that saves the table's fields before it validates the podium.
game_edit_SavesFirst(game_id, f) ==
    \/ Unauthorized
    \/ /\ is_admin
       /\ IF game_id \notin DOMAIN games
          THEN resp' = NotFound /\ UNCHANGED <<games, results>>
          ELSE IF GameEditRejects(Participants(game_id), f)
          THEN /\ resp' = Redirect("warning")
               /\ games' = [games EXCEPT ![game_id].banned_card = f.banned_card,
                                         ![game_id].sweep = f.sweep,
                                         ![game_id].save_player_id = f.save_player_id]
               /\ UNCHANGED results
          ELSE /\ games' = [games EXCEPT ![game_id].banned_card = f.banned_card,
                                         ![game_id].sweep = f.sweep,
                                         ![game_id].save_player_id = f.save_player_id]
               /\ results' = [results EXCEPT ![game_id] = AssignPositions(@, f)]
               /\ resp' = Redirect("success")
       /\ UNCHANGED <<players, roundinfo, is_admin>>

\* POST /games/<game_id>/edit
game_edit(game_id, f) ==
    \/ Unauthorized
    \/ /\ is_admin
       /\ IF game_id \notin DOMAIN games
          THEN resp' = NotFound /\ UNCHANGED <<games, results>>
          ELSE IF GameEditRejects(Participants(game_id), f)
          THEN resp' = Redirect("warning") /\ UNCHANGED <<games, results>>
          ELSE /\ games' = [games EXCEPT ![game_id].banned_card = f.banned_card,
                                         ![game_id].sweep = f.sweep,
                                         ![game_id].save_player_id = f.save_player_id]
               /\ results' = [results EXCEPT ![game_id] = AssignPositions(@, f)]
               /\ resp' = Redirect("success")
       /\ UNCHANGED <<players, roundinfo, is_admin>>

\* POST /games/<game_id>/reset
game_reset(game_id) ==
    \/ Unauthorized
    \/ /\ is_admin
       /\ IF game_id \notin DOMAIN games
          THEN resp' = NotFound /\ UNCHANGED <<games, results>>
          ELSE /\ games' = [games EXCEPT ![game_id] = ClearedGame(game_id)]
               /\ results' = [results EXCEPT ![game_id] = ClearedRows(@)]
               /\ resp' = Redirect("success")
       /\ UNCHANGED <<players, roundinfo, is_admin>>

\* POST /games/<game_id>/delete
game_delete(game_id) ==
    \/ Unauthorized
    \/ /\ is_admin
       /\ IF game_id \notin DOMAIN games
          THEN resp' = NotFound /\ UNCHANGED <<games, results>>
          ELSE /\ games' = DeleteGames({game_id})
               /\ results' = DeleteGamesResults({game_id})
               /\ resp' = Redirect("success")
       /\ UNCHANGED <<players, roundinfo, is_admin>>

(* ------------------------------------------------------------ round_edit *)
\* request.form.get(f"slot_{pid}", ""): form is a sequence indexed by pid
Slot(form, pid) == IF pid \in 1..Len(form) THEN form[pid] ELSE ""

\* The loop over all_ids: t1_new, t2_new, and bye_new (the last pid, in the
\* order of all_ids, whose slot is "bye"; 0 when none).
ParseSlots(all_ids, form) ==
    LET byes == SelectSeq(all_ids, LAMBDA pid : Slot(form, pid) = "bye")
    IN [t1_new |-> {pid \in Range(all_ids) : Slot(form, pid) = "1"},
        t2_new |-> {pid \in Range(all_ids) : Slot(form, pid) = "2"},
        bye_new |-> IF byes = <<>> THEN 0 ELSE byes[Len(byes)]]

\* "Si no marcaste bye, deduzco el sobrante": bye_new after the deduction,
\* 0 when the leftover is not exactly one player.
DeduceBye(all_ids, sel) ==
    IF sel.bye_new # 0 THEN sel.bye_new
    ELSE LET leftover == (Range(all_ids) \ sel.t1_new) \ sel.t2_new
         IN IF Cardinality(leftover) = 1 THEN CHOOSE x \in leftover : TRUE ELSE 0

\* The validations of round_edit's POST, on the selection with the bye
\* deduced: TRUE when the request is rejected.
RoundEditRejects(t1_new, t2_new, bye_new) ==
    IF bye_new = 0 THEN TRUE
    ELSE IF Cardinality(t1_new) # 4 \/ Cardinality(t2_new) # 4 THEN TRUE
    ELSE IF Cardinality(t1_new \cup t2_new \cup {bye_new}) # 9 THEN TRUE
    ELSE IF t1_new \cap t2_new # {} THEN TRUE
    ELSE FALSE

\* A new Game row: Game(round_number=round_no, table_no=table_no)
NewGame(round_no, table_no) ==
    [round_number |-> round_no, table_no |-> table_no, banned_card |-> 0,
     sweep |-> FALSE, save_player_id |-> 0]

\* get_or_create_game on the games gs: [games, id]; a new row takes the id
\* after the greatest one in the table.
get_or_create_game(gs, round_no, table_no) ==
    LET m == {g \in DOMAIN gs : gs[g].round_number = round_no
                                /\ gs[g].table_no = table_no}
    IN IF m # {}
       THEN [games |-> gs, id |-> CHOOSE g \in m : \A h \in m : g <= h]
       ELSE LET id == SetMax(DOMAIN gs) + 1
            IN [games |-> gs @@ (id :> NewGame(round_no, table_no)), id |-> id]

\* NewRows without the delete of the old rows.
NewRows_Append(old, t_new) ==
    LET ids == SortedSeq(t_new)
    IN old \o [i \in 1..Len(ids) |-> [player_id |-> ids[i], position |-> 0]]

\* The rows round_edit writes for one table: the old rows deleted, one row
\* per player of sorted(t_new), position None.
NewRows(old, t_new) ==
    LET ids == SortedSeq(t_new)
    IN [i \in 1..Len(ids) |-> [player_id |-> ids[i], position |-> 0]]

\* POST /rounds/<round_no>/edit
round_edit(round_no, form) ==
    \/ Unauthorized
    \/ /\ is_admin
       /\ LET all_ids == ActivePlayersOf(Store)
              sel == ParseSlots(all_ids, form)
              bye_new == DeduceBye(all_ids, sel)
          IN IF RoundEditRejects(sel.t1_new, sel.t2_new, bye_new)
             THEN resp' = Redirect("warning") /\ UNCHANGED <<roundinfo, games, results>>
             ELSE LET c1 == get_or_create_game(games, round_no, 1)
                      c2 == get_or_create_game(c1.games, round_no, 2)
                  IN /\ c1.id <= MaxGameId /\ c2.id <= MaxGameId
                     /\ roundinfo' = IF round_no \in DOMAIN roundinfo
                                     THEN [roundinfo EXCEPT ![round_no] = bye_new]
                                     ELSE roundinfo @@ (round_no :> bye_new)
                     /\ games' = c2.games
                     /\ results' = [g \in DOMAIN results |->
                                      IF g = c1.id THEN NewRows(results[g], sel.t1_new)
                                      ELSE IF g = c2.id THEN NewRows(results[g], sel.t2_new)
                                      ELSE results[g]]
                     /\ resp' = Redirect("success")
       /\ UNCHANGED <<players, is_admin>>

(* ---------------------------------------------------------------- inputs *)
\* slot_<pid> fields of round_edit forms, indexed by pid.
FormA == <<"1", "1", "1", "1", "2", "2", "2", "2", "bye", "">>
\* no bye marked: the leftover player is deduced
FormB == <<"", "1", "1", "1", "1", "2", "2", "2", "2", "">>
\* tables of 3 and 5
FormC == <<"1", "1", "1", "2", "2", "2", "2", "2", "bye", "">>
\* nobody assigned
FormD == <<>>

RoundForms == {FormA, FormB, FormC, FormD}

\* game_edit forms
GameA == [banned_card |-> 1, sweep |-> FALSE, save_player_id |-> 1,
          winner_id |-> 2, second_id |-> 3, third_id |-> 4]
GameB == [banned_card |-> 0, sweep |-> FALSE, save_player_id |-> 5,
          winner_id |-> 6, second_id |-> 0, third_id |-> 0]
GameC == [banned_card |-> 0, sweep |-> FALSE, save_player_id |-> 0,
          winner_id |-> 6, second_id |-> 7, third_id |-> 0]
GameD == [banned_card |-> 0, sweep |-> TRUE, save_player_id |-> 0,
          winner_id |-> 2, second_id |-> 3, third_id |-> 0]
\* no winner chosen
GameE == [banned_card |-> 0, sweep |-> FALSE, save_player_id |-> 0,
          winner_id |-> 0, second_id |-> 3, third_id |-> 0]
\* winner repeated as second
GameF == [banned_card |-> 0, sweep |-> FALSE, save_player_id |-> 0,
          winner_id |-> 2, second_id |-> 2, third_id |-> 0]

GameForms == {GameA, GameB, GameC, GameD, GameE, GameF}

\* (username, password) pairs posted to /login
Logins == {<<"admin", "admin123">>, <<"admin", "wrong">>, <<"guest", "admin123">>}
AddNames == {"", "borux", "Zed"}
ByeChoices == {0, 2}

\* Spec: the round and game handlers.  Tables and byes are set in round 1;
\* the other rounds are created (round_add) and deleted without tables.
EditRounds == {1}
EditForms == {FormA, FormB, FormC, FormD}
ResultForms == {GameA, GameC, GameD, GameE, GameF}
DeleteIds == {1, 2}

(* ------------------------------------------------------------------ spec *)
\* The store after db.create_all() and seed_players(), with no round and no
\* game (the store reset_tournament leaves), and an anonymous session.
Init ==
    /\ players = seed_players
    /\ roundinfo = [n \in {} |-> 0]
    /\ games = [g \in {} |-> 0]
    /\ results = [g \in GameIds |-> <<>>]
    /\ is_admin = FALSE
    /\ resp = NoResponse

Next ==
    \/ \E c \in Logins : login(c[1], c[2])
    \/ logout
    \/ index
    \/ \E n \in EditRounds, b \in ByeChoices : round_set_bye(n, b)
    \/ round_add
    \/ \E n \in Rounds : round_delete(n)
    \/ \E n \in Rounds : round_clear(n)
    \/ reset_tournament
    \/ \E n \in EditRounds, form \in EditForms : round_edit(n, form)
    \/ \E g \in GameIds, f \in ResultForms : game_edit(g, f)
    \/ \E g \in GameIds : game_reset(g)
    \/ \E g \in DeleteIds : game_delete(g)

Spec == Init /\ [][Next]_vars

\* SpecPlayers: the player handlers, with the composition of round 1 and
\* the standings request.
TogglePool == 5..10

NextPlayers ==
    \/ login(ADMIN_USERNAME, ADMIN_PASSWORD)
    \/ index
    \/ \E name \in AddNames : player_add(name)
    \/ \E pid \in TogglePool : player_toggle(pid)
    \/ \E form \in {FormA, FormC} : round_edit(1, form)

SpecPlayers == Init /\ [][NextPlayers]_vars

\* SpecResults: rounds are composed and results entered, table by table.
NextResults ==
    \/ login(ADMIN_USERNAME, ADMIN_PASSWORD)
    \/ index
    \/ \E n \in Rounds : round_edit(n, FormA)
    \/ \E g \in GameIds, f \in {GameB, GameC, GameD} : game_edit(g, f)

SpecResults == Init /\ [][NextResults]_vars

\* SpecAuth: every mutation endpoint, with one request each, in and out of
\* an admin session.
NextAuth ==
    \/ \E c \in Logins : login(c[1], c[2])
    \/ logout
    \/ \E b \in ByeChoices : round_set_bye(1, b)
    \/ round_edit(1, FormA)
    \/ round_add
    \/ round_delete(1)
    \/ round_clear(1)
    \/ game_edit(1, GameA)
    \/ game_reset(1)
    \/ \E g \in DeleteIds : game_delete(g)
    \/ reset_tournament
    \/ player_add("Zed")
    \/ player_toggle(9)

SpecAuth == Init /\ [][NextAuth]_vars

\* SpecClear: two rounds are composed, results entered, and tables and
\* rounds cleared.
NextClear ==
    \/ login(ADMIN_USERNAME, ADMIN_PASSWORD)
    \/ index
    \/ \E n \in Rounds : round_edit(n, FormA)
    \/ \E g \in GameIds, f \in {GameA, GameC, GameD} : game_edit(g, f)
    \/ \E g \in GameIds : game_reset(g)
    \/ \E n \in Rounds : round_clear(n)

SpecClear == Init /\ [][NextClear]_vars

\* SpecReset: players are deactivated, a round is composed and played, and
\* the tournament is reset.
NextReset ==
    \/ login(ADMIN_USERNAME, ADMIN_PASSWORD)
    \/ index
    \/ \E pid \in TogglePool : player_toggle(pid)
    \/ round_edit(1, FormA)
    \/ game_edit(1, GameA)
    \/ reset_tournament

SpecReset == Init /\ [][NextReset]_vars

(* ================================================================ claims *)
\* What the claims speak of, stated from the store and not from index().
AllRows == {<<g, i>> \in (DOMAIN games) \X (1..9) : i <= Len(results[g])}

RowsOf(p) == {x \in AllRows : results[x[1]][x[2]].player_id = p}

HasResult(p) == RowsOf(p) # {}

RefWins(p) == Cardinality({x \in RowsOf(p) : results[x[1]][x[2]].position = 1})

RefSeconds(p) == Cardinality({x \in RowsOf(p) : results[x[1]][x[2]].position = 2})

RefThirds(p) == Cardinality({x \in RowsOf(p) : results[x[1]][x[2]].position = 3})

RefSaves(p) == Cardinality({g \in DOMAIN games : games[g].save_player_id = p})

RefPoints(p) ==
    3 * RefWins(p)
    + 2 * Cardinality({x \in RowsOf(p) : results[x[1]][x[2]].position = 2
                                         /\ ~games[x[1]].sweep})
    + Cardinality({x \in RowsOf(p) : results[x[1]][x[2]].position = 3
                                     /\ ~games[x[1]].sweep})
    + RefSaves(p)

\* The last request was a standings request (only index answers 200 or 500),
\* so resp is its answer on the current store.
StandingsAnswered == resp.status \in {200, 500}

PageRows == {resp.page.table[i] : i \in 1..Len(resp.page.table)}

(* -------------------------------------------------------------------- C1 *)
\* C1: when some inactive player has a result in a stored table, a standings
\* request completes without error, lists no row for an inactive player, and
\* gives every active player the points and medal counts of that player's
\* own results (which a toggle of another player does not change).
C1_InactiveExcluded ==
    (StandingsAnswered /\ \E p \in PlayerIds : ~players[p].active /\ HasResult(p))
    => /\ resp.status = 200
       /\ {r.id : r \in PageRows} = ActiveIds
       /\ \A r \in PageRows :
              /\ r.points = RefPoints(r.id)
              /\ r.wins = RefWins(r.id)
              /\ r.seconds = RefSeconds(r.id)
              /\ r.thirds = RefThirds(r.id)

(* -------------------------------------------------------------------- C2 *)
\* C2: with fewer than 5 active players a standings request completes, gives
\* no row a verdict, and still has a standings row and a participation row
\* for every active player.
C2_FewPlayersNoVerdict ==
    (StandingsAnswered /\ Cardinality(ActiveIds) < 5)
    => /\ resp.status = 200
       /\ {r.id : r \in PageRows} = ActiveIds
       /\ \A r \in PageRows : r.status = "" /\ r.pos >= 1
       /\ Len(resp.page.participation) = Cardinality(ActiveIds)

(* -------------------------------------------------------------------- C3 *)
\* C3: the designated bye player of a round has no result in any table of
\* that round.
C3_ByeNotSeated ==
    \A n \in DOMAIN roundinfo :
        roundinfo[n] # 0 =>
            \A g \in GamesOfRound(n) : roundinfo[n] \notin Participants(g)

(* -------------------------------------------------------------------- C4 *)
\* C4: the save player of a table, when set, has a result in that table.
C4_SaveIsParticipant ==
    \A g \in DOMAIN games :
        games[g].save_player_id # 0 => games[g].save_player_id \in Participants(g)

(* -------------------------------------------------------------------- C5 *)
\* Round n is an exact partition of the active players: one table 1 and one
\* table 2 of 4 participants each, one bye, pairwise disjoint, covering
\* every active player.
ExactPartition(n) ==
    /\ n \in DOMAIN roundinfo /\ roundinfo[n] # 0
    /\ Cardinality(GameOf(n, 1)) = 1 /\ Cardinality(GameOf(n, 2)) = 1
    /\ LET t1 == Participants(FirstGame(n, 1))
           t2 == Participants(FirstGame(n, 2))
           bye == roundinfo[n]
       IN /\ Cardinality(t1) = 4 /\ Len(results[FirstGame(n, 1)]) = 4
          /\ Cardinality(t2) = 4 /\ Len(results[FirstGame(n, 2)]) = 4
          /\ t1 \cap t2 = {} /\ bye \notin t1 \cup t2
          /\ t1 \cup t2 \cup {bye} = ActiveIds

\* C5: every accepted round_edit leaves the round an exact partition of the
\* active players, whatever their number.
C5_RoundEditPartitions ==
    [][\A n \in Rounds, form \in {FormA, FormB, FormC, FormD} :
          (is_admin /\ round_edit(n, form) /\ resp'.flash = "success")
          => ExactPartition(n)']_vars

(* -------------------------------------------------------------------- C6 *)
\* C6: within each table the non-null finish positions are pairwise distinct
\* and lie in {1,2,3}; if the sweep flag is set, at most one result has
\* position 1 and every other result of the table has no position.
C6_PositionsWellFormed ==
    \A g \in DOMAIN games :
        LET rows == results[g]
            n == Len(rows)
        IN /\ \A i \in 1..n : rows[i].position \in {0, 1, 2, 3}
           /\ \A i, j \in 1..n :
                  (i # j /\ rows[i].position # 0) => rows[i].position # rows[j].position
           /\ games[g].sweep =>
                  /\ Cardinality({i \in 1..n : rows[i].position = 1}) <= 1
                  /\ \A i \in 1..n : rows[i].position \in {0, 1}

\* A swept table with its winner beside a table with a first and a second.
C6_Witness ==
    \E g, h \in DOMAIN games :
        /\ games[g].sweep
        /\ \E i \in 1..Len(results[g]) : results[g][i].position = 1
        /\ ~games[h].sweep
        /\ \E i, j \in 1..Len(results[h]) :
               results[h][i].position = 1 /\ results[h][j].position = 2

(* -------------------------------------------------------------------- C7 *)
\* C7: a player has at most one result per table, the tables of a round
\* share no player, and a round has at most one table of each table number.
C7_OneSeatPerPlayer ==
    /\ \A g \in DOMAIN games :
           \A i, j \in 1..Len(results[g]) :
               i # j => results[g][i].player_id # results[g][j].player_id
    /\ \A g, h \in DOMAIN games :
           (g # h /\ games[g].round_number = games[h].round_number)
           => /\ Participants(g) \cap Participants(h) = {}
              /\ games[g].table_no # games[h].table_no

\* Round 1 recomposed after a table was deleted and created again: both
\* tables hold 4 results, players 2-5 at the table created last.
C7_Witness ==
    \E g, h \in DOMAIN games :
        /\ g > 2 /\ h # g
        /\ games[g].round_number = 1 /\ games[h].round_number = 1
        /\ Participants(g) = {2, 3, 4, 5}
        /\ Len(results[g]) = 4 /\ Len(results[h]) = 4

(* -------------------------------------------------------------- C8, C9 *)
\* The verdict index() gives player p on the current store.
VerdictOf(S, p) == Status(per_player(S), ActivePlayersOf(S), p)

Verdict(p) == VerdictOf(Store, p)

\* The rank index() gives player p on the current store.
Rank(p) ==
    LET table == IndexPage(Store).table
    IN (CHOOSE r \in Range(table) : r.id = p).pos

\* Every round of the store is an exact partition of the active players.
AllRoundsPartition == \A n \in all_rounds(Store) : ExactPartition(n)

AllTablesHaveWinner == \A g \in DOMAIN games : has_winner(Store, g)

\* This step is an accepted game_edit on a table that had no winner.
ResultEntry ==
    \E g \in DOMAIN games, f \in {GameB, GameC, GameD} :
        /\ is_admin /\ ~has_winner(Store, g)
        /\ game_edit(g, f) /\ resp'.flash = "success"

\* C8: from a store whose rounds are partitions of the active players, a
\* player the standings mark CLASIFICADO stays CLASIFICADO through every
\* result entry on a table that had no winner, and has rank at most 4 once
\* every table has a winner.
C8_ClinchedStays ==
    [][AllRoundsPartition =>
         \A p \in ActiveIds :
             Verdict(p) = "CLASIFICADO" =>
                 /\ AllTablesHaveWinner => Rank(p) <= 4
                 /\ ResultEntry => VerdictOf(Store', p) = "CLASIFICADO"]_vars

\* C9: from a store whose rounds are partitions of the active players, a
\* player the standings mark ELIMINADO stays ELIMINADO through every result
\* entry on a table that had no winner, and once every table has a winner at
\* least 4 other active players have strictly more points.
C9_EliminatedStays ==
    [][AllRoundsPartition =>
         \A p \in ActiveIds :
             Verdict(p) = "ELIMINADO" =>
                 /\ AllTablesHaveWinner =>
                        Cardinality({q \in ActiveIds \ {p} :
                                       RefPoints(q) > RefPoints(p)}) >= 4
                 /\ ResultEntry => VerdictOf(Store', p) = "ELIMINADO"]_vars

(* ------------------------------------------------------------------- C10 *)
\* The 4th-highest value of field f ("lb" or "ub") among the rivals of p:
\* the value that at most 3 rivals exceed and at least 4 rivals reach.
FourthBest(pp, ids, p, f) ==
    LET rivals == ids \ {p}
        val(q) == IF f = "lb" THEN pp[q].lb ELSE pp[q].ub
    IN CHOOSE v \in {val(q) : q \in rivals} :
           /\ Cardinality({q \in rivals : val(q) > v}) <= 3
           /\ Cardinality({q \in rivals : val(q) >= v}) >= 4

\* The reference rule on the bounds pp of the players ids.
RefVerdict(pp, ids, p) ==
    IF pp[p].lb > FourthBest(pp, ids, p, "ub") THEN "CLASIFICADO"
    ELSE IF pp[p].ub < FourthBest(pp, ids, p, "lb") THEN "ELIMINADO"
    ELSE ""

\* 5 active players: player 1 with lb = ub = 10, rival ub values 9, 8, 7, 6.
FiveScenario ==
    <<[lb |-> 10, ub |-> 10], [lb |-> 5, ub |-> 9], [lb |-> 8, ub |-> 8],
      [lb |-> 3, ub |-> 7], [lb |-> 6, ub |-> 6]>>

\* C10: with at least 5 active players every standings row carries the
\* verdict of the reference rule on the bounds lb and ub: CLASIFICADO exactly
\* when lb is above the 4th-highest rival ub, otherwise ELIMINADO exactly
\* when ub is below the 4th-highest rival lb, otherwise none; and on the
\* 5-player scenario the first player is CLASIFICADO.
C10_VerdictRule ==
    /\ (resp.status = 200 /\ Cardinality(ActiveIds) >= 5)
       => /\ {r.id : r \in PageRows} = ActiveIds
          /\ \A r \in PageRows :
                 r.status = RefVerdict(per_player(Store), ActiveIds, r.id)
    /\ Status(FiveScenario, <<1, 2, 3, 4, 5>>, 1) = "CLASIFICADO"
    /\ \A p \in 1..5 :
           Status(FiveScenario, <<1, 2, 3, 4, 5>>, p)
               = RefVerdict(FiveScenario, 1..5, p)

\* A standings page that carries the three outcomes at once.
C10_Witness ==
    /\ resp.status = 200
    /\ \E r \in PageRows : r.status = "CLASIFICADO"
    /\ \E r \in PageRows : r.status = "ELIMINADO"
    /\ \E r \in PageRows : r.status = "" /\ per_player(Store)[r.id].ub > 0

(* ------------------------------------------------------------------- C11 *)
\* The clinch condition of index() for player p on the current store.
ClinchCondition(p) ==
    per_player(Store)[p].lb
        > fourth_best_rival_UB(per_player(Store), ActivePlayersOf(Store), p)

\* The elimination condition of index() for player p on the current store.
EliminationCondition(p) ==
    per_player(Store)[p].ub
        < fourth_best_rival_LB(per_player(Store), ActivePlayersOf(Store), p)

\* C11: with at least 5 active players the clinch condition and the
\* elimination condition are never both true for the same player, and a
\* standings page gives each row one verdict or none.
C11_VerdictExclusive ==
    (Cardinality(ActiveIds) >= 5 /\ ~IndexKeyError(Store))
    => /\ \A p \in ActiveIds : ~(ClinchCondition(p) /\ EliminationCondition(p))
       /\ resp.status = 200 =>
              \A r \in PageRows :
                  /\ r.status \in {"CLASIFICADO", "ELIMINADO", ""}
                  /\ r.status = "CLASIFICADO" <=> ClinchCondition(r.id)
                  /\ r.status = "ELIMINADO" <=> EliminationCondition(r.id)

\* A standings page on which one player meets the clinch condition, another
\* the elimination condition, and a third has games still to play.
C11_Witness ==
    /\ resp.status = 200
    /\ \E p, q, x \in ActiveIds :
           /\ ClinchCondition(p) /\ ~EliminationCondition(p)
           /\ EliminationCondition(q) /\ ~ClinchCondition(q)
           /\ per_player(Store)[x].remaining > 0

(* ------------------------------------------------------------------- C12 *)
\* C12: for every active player lb <= current points <= ub, where the
\* current points are those of the player's results and saves, lb equals
\* them, remaining >= 0 and ub = lb + 4 * remaining; a standings page shows
\* those points.
C12_BoundsBracketPoints ==
    ~IndexKeyError(Store)
    => /\ \A p \in ActiveIds :
              LET me == per_player(Store)[p]
              IN /\ me.points = RefPoints(p)
                 /\ me.lb = me.points
                 /\ me.remaining >= 0
                 /\ me.ub = me.lb + 4 * me.remaining
                 /\ me.lb <= me.points /\ me.points <= me.ub
       /\ resp.status = 200 =>
              \A r \in PageRows : r.points = per_player(Store)[r.id].lb

\* A standings page with a player whose points come from a save and a player
\* whose points come from a podium, both with games still to play (lb < ub).
C12_Witness ==
    /\ resp.status = 200
    /\ \E p, q \in ActiveIds :
           LET me == per_player(Store)[p]
               other == per_player(Store)[q]
           IN /\ me.saves > 0 /\ me.points = 1 /\ me.lb < me.ub
              /\ other.seconds > 0 /\ other.points = 2 /\ other.lb < other.ub

(* ------------------------------------------------------------------- C13 *)
\* C13: for every active player remaining = max(planned_to_play - played, 0):
\* it is never negative, played <= planned_to_play whenever it is positive,
\* and played + remaining = planned_to_play whenever played <=
\* planned_to_play; the participation list of a standings page shows these
\* numbers.
C13_RemainingClamped ==
    ~IndexKeyError(Store)
    => /\ \A p \in ActiveIds :
              LET me == per_player(Store)[p]
              IN /\ me.remaining = IF me.planned_to_play - me.played > 0
                                   THEN me.planned_to_play - me.played ELSE 0
                 /\ me.remaining >= 0
                 /\ me.remaining > 0 => me.played <= me.planned_to_play
                 /\ me.played <= me.planned_to_play
                        => me.played + me.remaining = me.planned_to_play
       /\ resp.status = 200 =>
              \A i \in 1..Len(resp.page.participation) :
                  LET r == resp.page.participation[i]
                  IN /\ r.remaining >= 0
                     /\ r.played <= r.planned_to_play
                            => r.played + r.remaining = r.planned_to_play
                     /\ \E p \in ActiveIds :
                            LET me == per_player(Store)[p]
                            IN /\ r.name = me.name /\ r.played = me.played
                               /\ r.remaining = me.remaining
                               /\ r.planned_to_play = me.planned_to_play

\* A standings page with a player who played more rounds than planned (the
\* bye of a round in which the player sat at a table with a winner) and a
\* player with a round still to play.
C13_Witness ==
    /\ resp.status = 200
    /\ \E i, j \in 1..Len(resp.page.participation) :
           LET r == resp.page.participation[i]
               t == resp.page.participation[j]
           IN /\ r.played > r.planned_to_play /\ r.remaining = 0
              /\ t.played < t.planned_to_play /\ t.remaining > 0

(* ------------------------------------------------------------------- C14 *)
\* The table g is resolved: it has a position-1 result or its sweep flag.
Resolved(g) ==
    games[g].sweep \/ \E i \in 1..Len(results[g]) : results[g][i].position = 1

\* The rounds in which p has a result at a resolved table.
RefPlayedRounds(p) ==
    {games[g].round_number : g \in {h \in DOMAIN games :
                                       p \in Participants(h) /\ Resolved(h)}}

\* C14: a player's played count is the number of distinct rounds in which the
\* player has a result at a table with a position-1 result or the sweep flag,
\* whatever the player's own position; a table with neither adds nothing.
C14_PlayedCountsResolvedRounds ==
    ~IndexKeyError(Store)
    => /\ \A p \in ActiveIds :
              per_player(Store)[p].played = Cardinality(RefPlayedRounds(p))
       /\ resp.status = 200 =>
              \A i \in 1..Len(resp.page.participation) :
                  \E p \in ActiveIds :
                      /\ players[p].name = resp.page.participation[i].name
                      /\ resp.page.participation[i].played
                             = Cardinality(RefPlayedRounds(p))

\* A standings page on a store where one player has played two rounds with no
\* position in either, one table counts through its sweep flag alone, and one
\* table with neither flag nor winner leaves its players' count at zero.
C14_Witness ==
    /\ resp.status = 200
    /\ \E p \in ActiveIds :
           /\ per_player(Store)[p].played = 2
           /\ \A x \in RowsOf(p) : results[x[1]][x[2]].position = 0
    /\ \E g \in DOMAIN games :
           /\ games[g].sweep
           /\ \A i \in 1..Len(results[g]) : results[g][i].position = 0
           /\ \E p \in Participants(g) : per_player(Store)[p].played >= 1
    /\ \E g \in DOMAIN games :
           /\ ~Resolved(g)
           /\ \E p \in Participants(g) : per_player(Store)[p].played
                                             < Cardinality(RowsOf(p))

(* ------------------------------------------------------------------- C15 *)
\* The round numbers that appear in a round record or in a table.
RefRounds ==
    {n \in 1..(MaxRound + 1) :
        n \in DOMAIN roundinfo \/ \E g \in DOMAIN games : games[g].round_number = n}

\* The number of round records that name p as bye.
RefRests(p) == Cardinality({n \in DOMAIN roundinfo : roundinfo[n] = p})

\* C15: total_rounds is the number of distinct round numbers that appear in a
\* round record or in a table, a player's rests is the number of round
\* records naming the player as bye, and planned_to_play is
\* max(total_rounds - rests, 0).
C15_PlannedFromRoundsAndRests ==
    ~IndexKeyError(Store)
    => /\ total_rounds(Store) = Cardinality(RefRounds)
       /\ \A p \in ActiveIds :
              LET me == per_player(Store)[p]
              IN /\ me.rests = RefRests(p)
                 /\ me.planned_to_play
                        = IF Cardinality(RefRounds) - RefRests(p) > 0
                          THEN Cardinality(RefRounds) - RefRests(p) ELSE 0
       /\ resp.status = 200 =>
              /\ resp.page.total_rounds = Cardinality(RefRounds)
              /\ \A i \in 1..Len(resp.page.participation) :
                     LET r == resp.page.participation[i]
                     IN \E p \in ActiveIds :
                            /\ players[p].name = r.name
                            /\ r.rests = RefRests(p)
                            /\ r.planned_to_play + r.rests = resp.page.total_rounds

\* A standings page over two rounds, one of them a round record without any
\* table, with the bye of one round planned for one game and the others for
\* two.
C15_Witness ==
    /\ resp.status = 200
    /\ resp.page.total_rounds = 2
    /\ \E n \in DOMAIN roundinfo : GamesOfRound(n) = {}
    /\ DOMAIN games # {}
    /\ \E i, j \in 1..Len(resp.page.participation) :
           /\ resp.page.participation[i].rests = 1
           /\ resp.page.participation[i].planned_to_play = 1
           /\ resp.page.participation[j].rests = 0
           /\ resp.page.participation[j].planned_to_play = 2

(* ------------------------------------------------------------------- C16 *)
\* The 4-tuple (points, wins, seconds, thirds) of row a is strictly greater
\* than that of row b, in lexicographic order.
TupleAbove(a, b) ==
    LET ta == <<a.points, a.wins, a.seconds, a.thirds>>
        tb == <<b.points, b.wins, b.seconds, b.thirds>>
    IN \E k \in 1..4 : ta[k] > tb[k] /\ \A j \in 1..(k - 1) : ta[j] = tb[j]

\* C16: the rows of a standings page are in descending order of (points,
\* wins, seconds, thirds), and the rank of each row is 1 + the number of
\* active players whose 4-tuple is strictly greater: equal 4-tuples share a
\* rank, the next group continues at its row index, and the name plays no
\* part.
C16_CompetitionRanking ==
    resp.status = 200
    => LET table == resp.page.table
       IN /\ {table[i].id : i \in 1..Len(table)} = ActiveIds
          /\ Len(table) = Cardinality(ActiveIds)
          /\ \A i, j \in 1..Len(table) : i < j => ~TupleAbove(table[j], table[i])
          /\ \A i \in 1..Len(table) :
                 table[i].pos
                     = 1 + Cardinality({j \in 1..Len(table) :
                                           TupleAbove(table[j], table[i])})
          /\ \A i \in 1..Len(table) :
                 /\ table[i].points = RefPoints(table[i].id)
                 /\ table[i].wins = RefWins(table[i].id)
                 /\ table[i].seconds = RefSeconds(table[i].id)
                 /\ table[i].thirds = RefThirds(table[i].id)

\* A standings page whose first rows have ranks 1, 1, 3: two players with the
\* same 4-tuple and different names, then a player with fewer points, then a
\* group that shares a later rank.
C16_Witness ==
    /\ resp.status = 200
    /\ Len(resp.page.table) >= 5
    /\ resp.page.table[1].pos = 1 /\ resp.page.table[2].pos = 1
    /\ resp.page.table[1].name # resp.page.table[2].name
    /\ resp.page.table[1].points > 0
    /\ resp.page.table[3].pos = 3
    /\ resp.page.table[4].pos = 4 /\ resp.page.table[5].pos = 4

(* ------------------------------------------------------------------- C17 *)
\* The positions the scoring rule is tried on: 0 (null), the podium, and
\* values outside it.
ScorePositions == {0, 1, 2, 3, 4, 5, -1}

\* The scoring table of the specification.
RefScore(position, sweep) ==
    CASE position = 0 -> 0
      [] position # 0 /\ sweep -> (IF position = 1 THEN 3 ELSE 0)
      [] position = 1 /\ ~sweep -> 3
      [] position = 2 /\ ~sweep -> 2
      [] position = 3 /\ ~sweep -> 1
      [] OTHER -> 0

\* C17: the scoring rule gives 0 for a null position; under sweep 3 for
\* position 1 and 0 for any other; without sweep 3, 2, 1 for positions 1, 2,
\* 3 and 0 for any other value; and the points of a standings row are the
\* scores of the player's results plus one point per save.
C17_ScoringRule ==
    /\ \A position \in ScorePositions, sweep \in BOOLEAN :
           points_for_position(position, sweep) = RefScore(position, sweep)
    /\ points_for_position(1, TRUE) = 3 /\ points_for_position(2, TRUE) = 0
    /\ points_for_position(3, TRUE) = 0 /\ points_for_position(0, TRUE) = 0
    /\ points_for_position(1, FALSE) = 3 /\ points_for_position(2, FALSE) = 2
    /\ points_for_position(3, FALSE) = 1 /\ points_for_position(0, FALSE) = 0
    /\ resp.status = 200 =>
           \A r \in PageRows :
               r.points - r.saves
                   = 3 * Cardinality({x \in RowsOf(r.id) :
                            RefScore(results[x[1]][x[2]].position, games[x[1]].sweep) = 3})
                     + 2 * Cardinality({x \in RowsOf(r.id) :
                            RefScore(results[x[1]][x[2]].position, games[x[1]].sweep) = 2})
                     + Cardinality({x \in RowsOf(r.id) :
                            RefScore(results[x[1]][x[2]].position, games[x[1]].sweep) = 1})

\* A standings page over a table with a first, a second and a third place
\* and a result without position, scored 3, 2, 1 and 0.
C17_Witness ==
    /\ resp.status = 200
    /\ \E g \in DOMAIN games :
           /\ ~games[g].sweep
           /\ \A k \in {0, 1, 2, 3} :
                  \E i \in 1..Len(results[g]) :
                      /\ results[g][i].position = k
                      /\ \E r \in PageRows :
                             /\ r.id = results[g][i].player_id
                             /\ r.points - r.saves = IF k = 0 THEN 0 ELSE 4 - k

(* ------------------------------------------------------------------- C18 *)
\* This step is a request to one of the mutation endpoints.
MutationRequest ==
    \/ \E b \in ByeChoices : round_set_bye(1, b)
    \/ round_edit(1, FormA)
    \/ round_add
    \/ round_delete(1)
    \/ round_clear(1)
    \/ game_edit(1, GameA)
    \/ game_reset(1)
    \/ \E g \in DeleteIds : game_delete(g)
    \/ reset_tournament
    \/ player_add("Zed")
    \/ player_toggle(9)

\* C18: a request to a mutation endpoint from a session that is not admin
\* leaves players, rounds, tables and results unchanged and the session not
\* admin; a session becomes admin only by a login with the right
\* credentials, stays admin until a logout, and a failed login leaves it as
\* it was.
C18_AdminGate ==
    [][/\ (~is_admin /\ MutationRequest) => (Store' = Store /\ ~is_admin')
       /\ ~is_admin => Store' = Store
       /\ (~is_admin /\ is_admin') => login(ADMIN_USERNAME, ADMIN_PASSWORD)
       /\ (is_admin /\ ~is_admin') => logout
       /\ logout => ~is_admin'
       /\ \A c \in Logins :
              (login(c[1], c[2]) /\ c # <<ADMIN_USERNAME, ADMIN_PASSWORD>>)
              => is_admin' = is_admin]_vars

\* After a logout, with a composed round and a result in the store, a request
\* was refused.
C18_Witness ==
    /\ ~is_admin
    /\ resp = Redirect("danger")
    /\ \E g \in DOMAIN games :
           \E i \in 1..Len(results[g]) : results[g][i].position = 1
    /\ Cardinality(PlayerIds) = 10

(* ------------------------------------------------------------------- C19 *)
\* C19: every result belongs to an existing table (no table id without a
\* table holds results), and a table holds the 4 results of its last
\* composition only.
C19_ResultsOwnedByTables ==
    /\ \A g \in DOMAIN results : g \notin DOMAIN games => results[g] = <<>>
    /\ \A g \in DOMAIN games : Len(results[g]) = 4

\* Table 1 was deleted with its results while table 2 keeps its own, one of
\* them with a position.
C19_Witness ==
    /\ DOMAIN games = {2}
    /\ results[1] = <<>>
    /\ Len(results[2]) = 4
    /\ \E i \in 1..4 : results[2][i].position = 1

Unresolved(S, g) ==
    /\ ~S.games[g].sweep
    /\ \A i \in 1..Len(S.results[g]) : S.results[g][i].position = 0
    /\ S.games[g].save_player_id = 0
    /\ \A i \in 1..Len(S.results[g]) :
           S.results[g][i].player_id \in ActiveIdsOf(S)
           => S.games[g].round_number
                  \notin Folded(S).played_rounds[S.results[g][i].player_id]

\* C21: after an accepted round_edit of round n both tables of round n are
\* unresolved for standings, even when game_edit had earlier set the sweep
\* flag or a save player on them.
C21_RoundEditUnresolves ==
    [][\A n \in Rounds, form \in RoundForms :
          (is_admin /\ round_edit(n, form) /\ resp'.flash = "success")
          => \A g \in DOMAIN games' :
                 games'[g].round_number = n => Unresolved(Store', g)]_vars

(* ------------------------------------------------------------------- C22 *)
\* The round_edit form fails validation: a table is not of 4 players, or no
\* bye is marked and the players left out are not exactly one.
InvalidRound(form) ==
    LET t1 == {p \in ActiveIds : Slot(form, p) = "1"}
        t2 == {p \in ActiveIds : Slot(form, p) = "2"}
        byes == {p \in ActiveIds : Slot(form, p) = "bye"}
    IN \/ Cardinality(t1) # 4 \/ Cardinality(t2) # 4
       \/ byes = {} /\ Cardinality((ActiveIds \ t1) \ t2) # 1

\* The game_edit form fails validation on table g: the winner is missing or
\* not at the table; without sweep, the podium repeats a player or names a
\* second or third who is not at the table; the save player is not at the
\* table.
InvalidGame(g, f) ==
    LET at == Participants(g)
    IN \/ f.winner_id = 0 \/ f.winner_id \notin at
       \/ /\ ~f.sweep
          /\ \/ f.second_id # 0 /\ f.second_id \in {f.winner_id, f.third_id}
             \/ f.third_id # 0 /\ f.third_id = f.winner_id
             \/ f.second_id # 0 /\ f.second_id \notin at
             \/ f.third_id # 0 /\ f.third_id \notin at
       \/ f.save_player_id # 0 /\ f.save_player_id \notin at

\* C22: a round_edit or game_edit request that fails validation is refused
\* with a warning and leaves players, round records, tables and results
\* exactly as they were; and every round_edit or game_edit request refused
\* with a warning leaves them so.  Stated by exclusion: no step of either
\* handler answers an invalid request with anything but a warning, and none
\* answers with a warning after changing the store.
C22_RejectedLeavesStore ==
    [][/\ \A form \in RoundForms :
              /\ (is_admin /\ InvalidRound(form) /\ resp'.flash # "warning")
                 => ~round_edit(1, form)
              /\ (is_admin /\ resp'.flash = "warning" /\ Store' # Store)
                 => ~round_edit(1, form)
       /\ \A g \in DOMAIN games, f \in GameForms :
              /\ (is_admin /\ InvalidGame(g, f) /\ resp'.flash # "warning")
                 => ~game_edit(g, f)
              /\ (is_admin /\ resp'.flash = "warning" /\ Store' # Store)
                 => ~game_edit(g, f)]_vars

\* A round_edit or game_edit request was refused with a warning while the
\* store holds a round with a podium and a save player (every round number
\* has its record, so the warning is not that of a deletion).
C22_Witness ==
    /\ is_admin
    /\ resp = Redirect("warning")
    /\ DOMAIN roundinfo = Rounds
    /\ \E g \in DOMAIN games :
           /\ games[g].save_player_id # 0
           /\ \E i, j \in 1..Len(results[g]) :
                  results[g][i].position = 1 /\ results[g][j].position = 3

(* ------------------------------------------------------------------- C23 *)
\* Between the current store and the next one, table g was cleared: its
\* flags are reset and its positions null, its round, number and
\* participants are the same, and afterwards it is unresolved for standings.
TableCleared(g) ==
    /\ g \in DOMAIN games'
    /\ games'[g] = [round_number |-> games[g].round_number,
                    table_no |-> games[g].table_no,
                    banned_card |-> 0, sweep |-> FALSE, save_player_id |-> 0]
    /\ Len(results'[g]) = Len(results[g])
    /\ \A i \in 1..Len(results[g]) :
           results'[g][i] = [player_id |-> results[g][i].player_id, position |-> 0]
    /\ Unresolved(Store', g)

\* Between the current store and the next one, table g is untouched.
TableKept(g) ==
    g \in DOMAIN games' /\ games'[g] = games[g] /\ results'[g] = results[g]

\* C23: round_clear(n) clears every table of round n and leaves the round's
\* bye, the participants of its tables and everything of other rounds
\* unchanged; game_reset does the same for one table; the cleared tables
\* then count as played for nobody and contribute no points.
C23_ClearResetsTables ==
    [][/\ \A n \in Rounds :
              (is_admin /\ round_clear(n))
              => /\ \A g \in DOMAIN games :
                        IF games[g].round_number = n
                        THEN TableCleared(g) ELSE TableKept(g)
                 /\ DOMAIN games' = DOMAIN games
                 /\ roundinfo' = roundinfo /\ players' = players
       /\ \A h \in DOMAIN games :
              (is_admin /\ game_reset(h))
              => /\ \A g \in DOMAIN games :
                        IF g = h THEN TableCleared(g) ELSE TableKept(g)
                 /\ DOMAIN games' = DOMAIN games
                 /\ roundinfo' = roundinfo /\ players' = players]_vars

\* Round 1 stands cleared with its bye and its 8 seats while round 2 keeps a
\* podium with a save player at one table and a sweep at the other.
C23_Witness ==
    /\ is_admin /\ resp = Redirect("success")
    /\ 1 \in DOMAIN roundinfo /\ roundinfo[1] = 9
    /\ Cardinality(GamesOfRound(1)) = 2
    /\ \A g \in GamesOfRound(1) : Len(results[g]) = 4 /\ Unresolved(Store, g)
    /\ \E g, h \in GamesOfRound(2) :
           /\ g # h
           /\ games[g].save_player_id # 0
           /\ \E i \in 1..Len(results[g]) : results[g][i].position = 3
           /\ \E i \in 1..Len(results[h]) : results[h][i].position = 2

(* ------------------------------------------------------------------- C24 *)
\* The store holds no table, no result and no round record: the store
\* reset_tournament leaves.
StoreIsReset ==
    /\ DOMAIN games = {}
    /\ \A g \in DOMAIN results : results[g] = <<>>
    /\ DOMAIN roundinfo = {}

\* The page reports an empty tournament: total_rounds = 0, a row of zeros for
\* every active player, and played = 0 and remaining = 0 for each.
EmptyTournamentPage(page) ==
    /\ page.total_rounds = 0
    /\ {page.table[i].id : i \in 1..Len(page.table)} = ActiveIds
    /\ \A i \in 1..Len(page.table) :
           LET r == page.table[i]
           IN r.points = 0 /\ r.wins = 0 /\ r.seconds = 0 /\ r.thirds = 0
              /\ r.saves = 0
    /\ Len(page.participation) = Cardinality(ActiveIds)
    /\ \A i \in 1..Len(page.participation) :
           page.participation[i].played = 0 /\ page.participation[i].remaining = 0

\* C24: reset_tournament removes every table, result and round record and
\* leaves the players and their active flags unchanged, and a standings
\* request on the store it leaves reports an empty tournament.
C24_ResetEmptiesStandings ==
    [][/\ (is_admin /\ reset_tournament)
          => (StoreIsReset' /\ players' = players)
       /\ (StoreIsReset /\ resp'.status \in {200, 500} /\ index)
          => (resp'.status = 200 /\ EmptyTournamentPage(resp'.page))]_vars

(* ------------------------------------------------------------------- C25 *)
\* C25: when all players with results are active, every standings row
\* satisfies points = 3 * wins + 2 * seconds + thirds + saves.
C25_PointsFromMedals ==
    (resp.status = 200 /\ \A p \in PlayerIds : HasResult(p) => players[p].active)
    => \A r \in PageRows :
           r.points = 3 * r.wins + 2 * r.seconds + r.thirds + r.saves

\* A standings page with two winners, a second, a third and a save point.
C25_Witness ==
    /\ resp.status = 200
    /\ Cardinality({r \in PageRows : r.wins = 1 /\ r.points = 3}) = 2
    /\ \E r \in PageRows : r.seconds = 1 /\ r.points = 2
    /\ \E r \in PageRows : r.thirds = 1 /\ r.points = 1
    /\ \E r \in PageRows : r.saves = 1 /\ r.points = 1

====
